---- MODULE Spec2Model ----
(***************************************************************************)
(* Model of scripts/ytdlp-extract.py: the command-line entry point, the     *)
(* cookie adapter, the external extraction call and the format normaliser.  *)
(*                                                                         *)
(* Python values are modelled as follows.                                  *)
(*   - a dict is a function whose DOMAIN is the set of keys present;        *)
(*   - None is the string "None" where a string is expected and the number  *)
(*     NoneN where a number is expected; float('nan') is the number NaN;    *)
(*   - numbers are naturals;                                                *)
(*   - a cookie domain is a sequence of tokens: "." is one dot, the tokens  *)
(*     "youtube.com" and "google.com" are those substrings, any other token *)
(*     is text containing neither substring nor a leading dot.              *)
(***************************************************************************)
EXTENDS Integers, Sequences, FiniteSets, TLC

VARIABLES
    argv,              \* sys.argv
    cookiefs,          \* the file at the path given as sys.argv[2]
    disk,              \* how the temp directory behaves for this run
    site,              \* what ydl.extract_info does, without and with cookies
    pc,                \* position of the process
    url,               \* extract's url
    cookie_file,       \* extract's cookie_file
    temp_cookie_file,  \* extract's temp_cookie_file: None or the file's name
    cookiefile_opt,    \* ydl_opts['cookiefile'], Absent when the key is unset
    tmpfile,           \* the temp cookie file on disk
    requests,          \* the calls of ydl.extract_info the library has seen
    info,              \* extract's info
    formats,           \* extract's formats
    seen,              \* extract's seen
    idx,               \* position of the for loop in raw_formats (1-based)
    exc,               \* the exception being propagated
    result,            \* the value extract returns
    stdout,            \* documents printed so far
    exit_code          \* process exit status

vars == <<argv, cookiefs, disk, site, pc, url, cookie_file, temp_cookie_file,
          cookiefile_opt, tmpfile, requests, info, formats, seen, idx, exc,
          result, stdout, exit_code>>

\* ------------------------------------------------------------ bounds

MaxFormats == 2
MaxSortLen == 3
MaxCookies == 2

\* ------------------------------------------------------------ Python values

None == "None"
NoneN == -1
NaN == -2
Absent == "<absent>"
EmptyStr == ""

\* dict.get(key, default)
Get(d, key, default) == IF key \in DOMAIN d THEN d[key] ELSE default

\* bool(x) of a number or None
TruthyN(x) == x # NoneN /\ x # 0

\* bool(x) of a string or None
TruthyS(x) == x # None /\ x # EmptyStr

\* x or 0
OrZero(x) == IF TruthyN(x) THEN x ELSE 0

\* ------------------------------------------------------------ cookie adapter

NonDict == [nondict |-> TRUE]
IsDict(c) == "nondict" \notin DOMAIN c
NoneDomain == <<"None">>
NetscapeHeader == "# Netscape HTTP Cookie File"
TempName == "tmpXXXX.txt"

\* str.startswith('.')
StartsWithDot(domain) == Len(domain) > 0 /\ domain[1] = "."

\* d in domain, for d a needle token
Contains(domain, d) == \E k \in 1..Len(domain) : domain[k] = d

\* c.get('domain', '') of line 63 raises when c is no dict, and
\* `d in None` raises a TypeError
FilterRaises(json_cookies) ==
    \E k \in 1..Len(json_cookies) :
        \/ ~IsDict(json_cookies[k])
        \/ Get(json_cookies[k], "domain", <<>>) = NoneDomain

IsYtCookie(c) ==
    \E d \in {"youtube.com", "google.com"} : Contains(Get(c, "domain", <<>>), d)

\* [c for c in json_cookies if any(d in c.get('domain', '') for d in [...])]
YtCookies(json_cookies) == SelectSeq(json_cookies, IsYtCookie)

\* int(c.get('expirationDate', 0)) raises for None and for nan; every cookie
\* handed to parse_json_cookies_to_netscape is converted, named or not
ParseRaises(json_cookies) ==
    \E k \in 1..Len(json_cookies) :
        Get(json_cookies[k], "expirationDate", 0) \in {NaN, NoneN}

\* the domain is written as exported, no dot prepended
NetscapeLineMutNoDot(c) ==
    LET domain == Get(c, "domain", <<>>)
    IN  [domain  |-> domain,
         flag    |-> IF StartsWithDot(domain) THEN "TRUE" ELSE "FALSE",
         path    |-> Get(c, "path", "/"),
         secure  |-> IF Get(c, "secure", FALSE) THEN "TRUE" ELSE "FALSE",
         expires |-> Get(c, "expirationDate", 0),
         name    |-> Get(c, "name", EmptyStr),
         value   |-> Get(c, "value", EmptyStr)]

\* lines 25-36: one line of the Netscape file, as its tab-separated fields;
\* int() is the identity on the naturals that model the numbers
NetscapeLine(c) ==
    LET domain0 == Get(c, "domain", <<>>)
        domain  == IF Len(domain0) > 0 /\ ~StartsWithDot(domain0)
                   THEN <<".">> \o domain0 ELSE domain0
    IN  [domain  |-> domain,
         flag    |-> IF StartsWithDot(domain) THEN "TRUE" ELSE "FALSE",
         path    |-> Get(c, "path", "/"),
         secure  |-> IF Get(c, "secure", FALSE) THEN "TRUE" ELSE "FALSE",
         expires |-> Get(c, "expirationDate", 0),
         name    |-> Get(c, "name", EmptyStr),
         value   |-> Get(c, "value", EmptyStr)]

\* if name and value
HasNameAndValue(c) ==
    TruthyS(Get(c, "name", EmptyStr)) /\ TruthyS(Get(c, "value", EmptyStr))

RECURSIVE CookieLines(_)
CookieLines(cs) ==
    IF cs = <<>> THEN <<>>
    ELSE (IF HasNameAndValue(Head(cs)) THEN <<NetscapeLine(Head(cs))>> ELSE <<>>)
         \o CookieLines(Tail(cs))

\* the lines of the returned text: the header, then one record per cookie
parse_json_cookies_to_netscape(json_cookies) ==
    [header |-> NetscapeHeader, records |-> CookieLines(json_cookies)]

\* ------------------------------------------------------------ format normaliser

\* quality label: "{height}p", "{height}p{fps}", "{int(abr)}kbps" or a text
Label(height, fps, kbps, text) ==
    [height |-> height, fps |-> fps, kbps |-> kbps, text |-> text]

\* lines 116-123; int(abr) raises for nan
QualityRaises(f) ==
    /\ ~TruthyN(Get(f, "height", NoneN))
    /\ Get(f, "abr", NoneN) = NaN

Quality(f) ==
    LET height == Get(f, "height", NoneN)
        fps    == Get(f, "fps", NoneN)
        abr    == Get(f, "abr", NoneN)
    IN  IF TruthyN(height)
        THEN Label(height, IF TruthyN(fps) /\ fps > 30 THEN fps ELSE NoneN,
                   NoneN, None)
        ELSE IF TruthyN(abr)
        THEN Label(NoneN, NoneN, abr, None)
        ELSE Label(NoneN, NoneN, NoneN,
                   IF TruthyS(Get(f, "format_note", None))
                   THEN Get(f, "format_note", None)
                   ELSE Get(f, "format_id", None))

\* the earlier revision: exact, then approximate, no estimate from tbr
FilesizeMutNoCalc(f, duration) ==
    LET filesize == Get(f, "filesize", NoneN)
    IN  IF TruthyN(filesize) THEN filesize
        ELSE Get(f, "filesize_approx", NoneN)

\* lines 125-131: prefer exact > calculated from tbr > approx
Filesize(f, duration) ==
    LET filesize == Get(f, "filesize", NoneN)
        tbr      == Get(f, "tbr", NoneN)
        fs1 == IF ~TruthyN(filesize) /\ TruthyN(tbr) /\ TruthyN(duration)
               THEN (tbr * 1000 * duration) \div 8
               ELSE filesize
    IN  IF ~TruthyN(fs1) THEN Get(f, "filesize_approx", NoneN) ELSE fs1

\* lines 97-108: the type of a descriptor, or "drop" for `continue`
FType(f) ==
    LET vcodec == Get(f, "vcodec", "none")
        acodec == Get(f, "acodec", "none")
    IN  IF vcodec # "none" /\ acodec # "none" THEN "video"
        ELSE IF vcodec # "none" THEN "video"
        ELSE IF acodec # "none" THEN "audio"
        ELSE "drop"

\* lines 133-147: the record appended for descriptor f
BuildRecord(f, duration) ==
    LET vcodec == Get(f, "vcodec", "none")
        acodec == Get(f, "acodec", "none")
    IN  [format_id |-> Get(f, "format_id", None),
         quality   |-> Quality(f),
         ext       |-> Get(f, "ext", None),
         filesize  |-> Filesize(f, duration),
         url       |-> Get(f, "url", None),
         type      |-> FType(f),
         height    |-> Get(f, "height", NoneN),
         width     |-> Get(f, "width", NoneN),
         fps       |-> Get(f, "fps", NoneN),
         vcodec    |-> IF vcodec # "none" THEN vcodec ELSE None,
         acodec    |-> IF acodec # "none" THEN acodec ELSE None,
         abr       |-> Get(f, "abr", NoneN),
         tbr       |-> Get(f, "tbr", NoneN)]

\* lines 88-89: the descriptor has no URL
NoUrl(f) == ~TruthyS(Get(f, "url", None))

\* no check against seen
DuplicateMutNever(f, seenIds) == FALSE

\* lines 92-93: the identifier was seen before
Duplicate(f, seenIds) == Get(f, "format_id", None) \in seenIds

\* lines 150-155: the sort key, and its lexicographic order
SortKey(x) ==
    <<IF x.type # "video" \/ x.acodec = None THEN 1 ELSE 0,
      0 - OrZero(x.height),
      0 - OrZero(x.fps),
      0 - OrZero(x.filesize)>>

RECURSIVE TupleLess(_, _)
TupleLess(a, b) ==
    IF a = <<>> \/ b = <<>> THEN a = <<>> /\ b # <<>>
    ELSE IF Head(a) # Head(b) THEN Head(a) < Head(b)
    ELSE TupleLess(Tail(a), Tail(b))

\* an insertion that puts an element before its equals
RECURSIVE InsertMutUnstable(_, _)
InsertMutUnstable(sorted, x) ==
    IF sorted = <<>> THEN <<x>>
    ELSE IF TupleLess(SortKey(Head(sorted)), SortKey(x))
    THEN <<Head(sorted)>> \o InsertMutUnstable(Tail(sorted), x)
    ELSE <<x>> \o sorted

\* list.sort(key=...) is stable: an element goes after every element whose
\* key is not greater than its own
RECURSIVE Insert(_, _)
Insert(sorted, x) ==
    IF sorted = <<>> THEN <<x>>
    ELSE IF TupleLess(SortKey(x), SortKey(Head(sorted)))
    THEN <<x>> \o sorted
    ELSE <<Head(sorted)>> \o Insert(Tail(sorted), x)

RECURSIVE SortFormats(_)
SortFormats(fs) ==
    IF fs = <<>> THEN <<>>
    ELSE Insert(SortFormats(SubSeq(fs, 1, Len(fs) - 1)), fs[Len(fs)])

\* lines 157-170 and 172, 174: the two result documents
Success(i, fs) ==
    [success |-> TRUE,
     data |-> [id          |-> Get(i, "id", None),
               title       |-> Get(i, "title", None),
               description |-> Get(i, "description", None),
               author      |-> IF TruthyS(Get(i, "uploader", None))
                               THEN Get(i, "uploader", None)
                               ELSE Get(i, "channel", None),
               duration    |-> Get(i, "duration", NoneN),
               thumbnail   |-> Get(i, "thumbnail", None),
               view_count  |-> Get(i, "view_count", NoneN),
               like_count  |-> Get(i, "like_count", NoneN),
               formats     |-> fs]]

Failure(msg) == [success |-> FALSE, error |-> msg]

\* ------------------------------------------------------------ environment

EmptyDict == [k \in {} |-> None]

\* a dict entry that is present unless the value is Absent
OptS(key, v) == IF v = Absent THEN EmptyDict ELSE key :> v

Prog == "ytdlp-extract.py"
Url == "https://www.youtube.com/watch?v=xetSFt4BuFw"
CookiePath == "cookies.json"

ArgvNoUrl == <<Prog>>
ArgvUrl == <<Prog, Url>>
ArgvCookie == <<Prog, Url, CookiePath>>

\* the file at CookiePath: missing, unreadable, flat text, text that starts
\* with '[' and is no JSON, or a JSON array
CookieFs(exists, readable, kind, entries) ==
    [exists |-> exists, readable |-> readable, kind |-> kind, entries |-> entries]
NoFile == CookieFs(FALSE, FALSE, "none", <<>>)
Unreadable == CookieFs(TRUE, FALSE, "none", <<>>)
NetscapeFile == CookieFs(TRUE, TRUE, "netscape", <<>>)
BadJsonFile == CookieFs(TRUE, TRUE, "badjson", <<>>)
ArrayFile(entries) == CookieFs(TRUE, TRUE, "array", entries)

Disk(create_ok, write_ok, unlink_ok) ==
    [create_ok |-> create_ok, write_ok |-> write_ok, unlink_ok |-> unlink_ok]
DiskOk == Disk(TRUE, TRUE, TRUE)
DiskCases == {DiskOk, Disk(FALSE, TRUE, TRUE), Disk(TRUE, FALSE, TRUE),
              Disk(TRUE, TRUE, FALSE)}

Returns(i) == [kind |-> "info", msg |-> None, info |-> i]
Raises(type, msg) == [kind |-> type, msg |-> msg, info |-> EmptyDict]
Site(anon, auth) == [anon |-> anon, auth |-> auth]

\* cookie entries as a browser extension exports them
EntryPool ==
    { [domain |-> <<"youtube.com">>, name |-> "SID", value |-> "v1"],
      [domain |-> <<".", "youtube.com">>, name |-> "HSID", value |-> "v2",
       path |-> "/watch", secure |-> TRUE, expirationDate |-> 1700],
      [domain |-> <<"accounts", ".", "google.com">>, name |-> "NID",
       value |-> "v3", secure |-> FALSE],
      [domain |-> <<"example.com">>, name |-> "x", value |-> "v4"],
      [domain |-> <<"youtube.com">>, value |-> "v5"],
      [domain |-> <<".", "google.com">>, name |-> "EMPTY", value |-> EmptyStr],
      [name |-> "nodomain", value |-> "v6"],
      [domain |-> <<"youtube.com">>, name |-> "BAD", value |-> "v7",
       expirationDate |-> NoneN] }

\* entries on which line 63 raises
MalformedEntries == {NonDict, [domain |-> NoneDomain, name |-> "n", value |-> "v"]}

SeqsUpTo(S, n) == UNION {[1..k -> S] : k \in 0..n}

\* a raw format descriptor of the library; a codec that is Absent has no key
Desc(u, fid, vc, ac, ext, height, fps, filesize, tbr, approx, abr) ==
    [url |-> u, format_id |-> fid, ext |-> ext, height |-> height, fps |-> fps,
     filesize |-> filesize, tbr |-> tbr, filesize_approx |-> approx,
     abr |-> abr, width |-> NoneN, format_note |-> None]
    @@ OptS("vcodec", vc) @@ OptS("acodec", ac)

Info(fmts, duration) ==
    [id |-> "xetSFt4BuFw", title |-> "t", description |-> None,
     uploader |-> None, channel |-> "ch", duration |-> duration,
     thumbnail |-> None, view_count |-> 7, like_count |-> NoneN,
     formats |-> fmts]

Codecs == {Absent, None, "none", "avc1"}

\* descriptors that differ in URL, identifier, codecs and container
DedupPool ==
    { Desc(u, fid, c[1], c[2], ext, 720, NoneN, NoneN, NoneN, NoneN, NoneN) :
        u \in {None, "u"}, fid \in {"a", "b"},
        c \in {<<"avc1", "mp4a">>, <<"none", "opus">>, <<"none", "none">>},
        ext \in {"mp4", "webm"} }

\* one URL-bearing descriptor for every pair of codec values
CodecPool ==
    { Desc("u", "a", vc, ac, "mp4", 720, NoneN, NoneN, NoneN, NoneN, NoneN) :
        vc \in Codecs, ac \in Codecs }

\* descriptors that differ in the sort keys; the identifier is the position
SortPool(fid) ==
    { Desc("u", fid, c[1], c[2], "mp4", height, r[1], r[2], NoneN, NoneN, NoneN) :
        c \in {<<"avc1", "mp4a">>, <<"avc1", "none">>},
        height \in {720, 1080},
        r \in {<<NoneN, NoneN>>, <<60, NoneN>>, <<60, 500>>} }
    \cup { Desc("u", fid, "none", "opus", "webm", NoneN, NoneN, 500, NoneN, NoneN, 128) }

FormatIds == <<"a", "b", "c", "d", "e">>

SortLists ==
    UNION { { fs \in [1..k -> UNION {SortPool(FormatIds[j]) : j \in 1..k}] :
                \A j \in 1..k : fs[j].format_id = FormatIds[j] } : k \in 1..MaxSortLen }

\* one descriptor for every combination of the three size sources
SizePool ==
    { Desc("u", "a", "avc1", "mp4a", "mp4", 720, 30, filesize, tbr, approx, NoneN) :
        filesize \in {NoneN, 0, 500}, tbr \in {NoneN, 0, 1000},
        approx \in {NoneN, 0, 700} }

Durations == {NoneN, 0, 8}

NaNDesc == Desc("u", "n", "none", "opus", "webm", NoneN, NoneN, NoneN, NoneN, NoneN, NaN)

SmallInfo ==
    Info(<<Desc("u", "18", "avc1", "mp4a", "mp4", 360, 30, NoneN, 500, NoneN, NoneN),
           Desc("u", "251", "none", "opus", "webm", NoneN, NoneN, 900, NoneN, NoneN, 128)>>, 8)

ErrDownload == Raises("DownloadError", "ERROR: Video unavailable")
ErrGeneric == Raises("Exception", "boom")

\* what the library can answer
Responses == {Returns(SmallInfo), Returns(Info(<<NaNDesc>>, 8)), ErrDownload, ErrGeneric}

\* ------------------------------------------------------------ initial states

NoExc == [type |-> None, msg |-> None]
NoResult == [success |-> FALSE, error |-> None]
NoTemp == [created |-> FALSE, exists |-> FALSE, header |-> None, records |-> <<>>]

\* the process has just started: nothing of extract has run
Fresh ==
    /\ pc = "main"
    /\ url = None
    /\ cookie_file = None
    /\ temp_cookie_file = None
    /\ cookiefile_opt = Absent
    /\ tmpfile = NoTemp
    /\ requests = <<>>
    /\ info = EmptyDict
    /\ formats = <<>>
    /\ seen = {}
    /\ idx = 1
    /\ exc = NoExc
    /\ result = NoResult
    /\ stdout = <<>>
    /\ exit_code = NoneN

\* invocations without a cookie file argument, with and without the URL
InitArgs ==
    /\ argv \in {ArgvNoUrl, ArgvUrl}
    /\ cookiefs = NoFile
    /\ disk = DiskOk
    /\ site \in {Site(a, ErrGeneric) : a \in Responses}

\* every cookie export of up to MaxCookies entries
InitCookies ==
    /\ argv = ArgvCookie
    /\ cookiefs \in {ArrayFile(es) : es \in SeqsUpTo(EntryPool, MaxCookies)}
    /\ disk = DiskOk
    /\ site \in {Site(ErrDownload, Returns(SmallInfo)), Site(Returns(SmallInfo), ErrGeneric)}

\* every way the cookie handling and the temp file can fail, against every
\* answer of the library
InitFailures ==
    /\ argv = ArgvCookie
    /\ cookiefs \in {NoFile, Unreadable, NetscapeFile, BadJsonFile}
         \cup {ArrayFile(<<e>>) : e \in EntryPool \cup MalformedEntries}
         \cup {ArrayFile(<<e1, e2>>) : e1 \in EntryPool, e2 \in MalformedEntries}
    /\ disk \in DiskCases
    /\ site \in {Site(a, b) : a \in Responses, b \in {Returns(SmallInfo), ErrGeneric}}

\* the normaliser on the raw lists the claims about it need
InitFormats ==
    /\ argv = ArgvUrl
    /\ cookiefs = NoFile
    /\ disk = DiskOk
    /\ \E i \in {Info(fs, 8) : fs \in SeqsUpTo(DedupPool, MaxFormats)}
             \cup {Info(<<f>>, 8) : f \in CodecPool}
             \cup {Info(fs, 8) : fs \in SortLists}
             \cup {Info(<<f>>, d) : f \in SizePool, d \in Durations} :
          site = Site(Returns(i), ErrGeneric)

Init == Fresh /\ (InitArgs \/ InitCookies \/ InitFailures \/ InitFormats)

\* ------------------------------------------------------------ __main__

\* the usage error is printed and the script goes on
MainNoUrlMutFallsThrough ==
    /\ pc = "main"
    /\ Len(argv) < 2
    /\ stdout' = Append(stdout, Failure("URL required"))
    /\ pc' = "cookies"
    /\ UNCHANGED <<argv, cookiefs, disk, site, url, cookie_file, temp_cookie_file,
                   cookiefile_opt, tmpfile, requests, info, formats, seen, idx,
                   exc, result, exit_code>>

\* lines 184-186
MainNoUrl ==
    /\ pc = "main"
    /\ Len(argv) < 2
    /\ stdout' = Append(stdout, Failure("URL required"))
    /\ exit_code' = 1
    /\ pc' = "exited"
    /\ UNCHANGED <<argv, cookiefs, disk, site, url, cookie_file, temp_cookie_file,
                   cookiefile_opt, tmpfile, requests, info, formats, seen, idx,
                   exc, result>>

\* lines 188-190 and 40-51: extract is entered
MainCall ==
    /\ pc = "main"
    /\ Len(argv) >= 2
    /\ url' = argv[2]
    /\ cookie_file' = IF Len(argv) > 2 THEN argv[3] ELSE None
    /\ temp_cookie_file' = None
    /\ cookiefile_opt' = Absent
    /\ pc' = "cookies"
    /\ UNCHANGED <<argv, cookiefs, disk, site, tmpfile, requests, info, formats,
                   seen, idx, exc, result, stdout, exit_code>>

\* ------------------------------------------------------------ extract: cookies

\* line 54
HasCookieFile == TruthyS(cookie_file) /\ cookiefs.exists

\* lines 56-60
ReadsJson == HasCookieFile /\ cookiefs.readable /\ cookiefs.kind \in {"badjson", "array"}

\* lines 61-65: json.loads, the filter or the conversion raises
JsonRaises ==
    \/ cookiefs.kind = "badjson"
    \/ FilterRaises(cookiefs.entries)
    \/ ParseRaises(YtCookies(cookiefs.entries))

\* lines 64-67: the conversion succeeded and there is something to write
WritesTemp == ReadsJson /\ ~JsonRaises /\ YtCookies(cookiefs.entries) # <<>>

CookieDone ==
    /\ pc' = "extract"
    /\ UNCHANGED <<argv, cookiefs, disk, site, url, cookie_file, requests, info,
                   formats, seen, idx, exc, result, stdout, exit_code>>

\* line 54: no cookie_file, or no file at that path
CookieSkip ==
    /\ pc = "cookies"
    /\ ~HasCookieFile
    /\ UNCHANGED <<temp_cookie_file, cookiefile_opt, tmpfile>>
    /\ CookieDone

\* lines 56-57 raise, lines 74-76 swallow
CookieReadFails ==
    /\ pc = "cookies"
    /\ HasCookieFile /\ ~cookiefs.readable
    /\ UNCHANGED <<temp_cookie_file, cookiefile_opt, tmpfile>>
    /\ CookieDone

\* lines 71-73
CookiePassThrough ==
    /\ pc = "cookies"
    /\ HasCookieFile /\ cookiefs.readable /\ cookiefs.kind = "netscape"
    /\ cookiefile_opt' = cookie_file
    /\ UNCHANGED <<temp_cookie_file, tmpfile>>
    /\ CookieDone

\* lines 61-65 raise, lines 74-76 swallow
CookieJsonFails ==
    /\ pc = "cookies"
    /\ ReadsJson /\ JsonRaises
    /\ UNCHANGED <<temp_cookie_file, cookiefile_opt, tmpfile>>
    /\ CookieDone

\* line 64: no YouTube or Google cookie in the export
CookieJsonNoMatch ==
    /\ pc = "cookies"
    /\ ReadsJson /\ ~JsonRaises /\ YtCookies(cookiefs.entries) = <<>>
    /\ UNCHANGED <<temp_cookie_file, cookiefile_opt, tmpfile>>
    /\ CookieDone

\* line 67 raises: temp_cookie_file is still None
CookieTempCreateFails ==
    /\ pc = "cookies"
    /\ WritesTemp /\ ~disk.create_ok
    /\ UNCHANGED <<temp_cookie_file, cookiefile_opt, tmpfile>>
    /\ CookieDone

\* the option is set before the write that raises
CookieTempWriteFailsMutConfigured ==
    /\ pc = "cookies"
    /\ WritesTemp /\ disk.create_ok /\ ~disk.write_ok
    /\ temp_cookie_file' = TempName
    /\ tmpfile' = [created |-> TRUE, exists |-> TRUE, header |-> None, records |-> <<>>]
    /\ cookiefile_opt' = TempName
    /\ CookieDone

\* line 68 or 69 raises: the file exists and is named, line 70 is not reached
CookieTempWriteFails ==
    /\ pc = "cookies"
    /\ WritesTemp /\ disk.create_ok /\ ~disk.write_ok
    /\ temp_cookie_file' = TempName
    /\ tmpfile' = [created |-> TRUE, exists |-> TRUE, header |-> None, records |-> <<>>]
    /\ UNCHANGED cookiefile_opt
    /\ CookieDone

\* lines 65-70
CookieTempWritten ==
    /\ pc = "cookies"
    /\ WritesTemp /\ disk.create_ok /\ disk.write_ok
    /\ temp_cookie_file' = TempName
    /\ LET text == parse_json_cookies_to_netscape(YtCookies(cookiefs.entries))
       IN  tmpfile' = [created |-> TRUE, exists |-> TRUE,
                       header |-> text.header, records |-> text.records]
    /\ cookiefile_opt' = TempName
    /\ CookieDone

\* another process removes the temp file while extract runs
TempVanishes ==
    /\ pc \in {"extract", "loop", "except", "finally"}
    /\ tmpfile.exists
    /\ tmpfile' = [tmpfile EXCEPT !.exists = FALSE]
    /\ UNCHANGED <<argv, cookiefs, disk, site, pc, url, cookie_file,
                   temp_cookie_file, cookiefile_opt, requests, info, formats,
                   seen, idx, exc, result, stdout, exit_code>>

\* ------------------------------------------------------------ extract: the call

\* the library answers according to whether a cookie file is configured
Response == IF cookiefile_opt = Absent THEN site.anon ELSE site.auth

Request == [url |-> url, cookiefile |-> cookiefile_opt, file |-> tmpfile]

\* lines 79-85: extract_info returns
ExtractInfoReturns ==
    /\ pc = "extract"
    /\ Response.kind = "info"
    /\ requests' = Append(requests, Request)
    /\ info' = Response.info
    /\ formats' = <<>>
    /\ seen' = {}
    /\ idx' = 1
    /\ pc' = "loop"
    /\ UNCHANGED <<argv, cookiefs, disk, site, url, cookie_file, temp_cookie_file,
                   cookiefile_opt, tmpfile, exc, result, stdout, exit_code>>

\* lines 79-80: extract_info raises
ExtractInfoRaises ==
    /\ pc = "extract"
    /\ Response.kind # "info"
    /\ requests' = Append(requests, Request)
    /\ exc' = [type |-> Response.kind, msg |-> Response.msg]
    /\ pc' = "except"
    /\ UNCHANGED <<argv, cookiefs, disk, site, url, cookie_file, temp_cookie_file,
                   cookiefile_opt, tmpfile, info, formats, seen, idx, stdout,
                   result, exit_code>>

\* ------------------------------------------------------------ extract: the loop

RawFormats == Get(info, "formats", <<>>)
Duration == Get(info, "duration", 0)
Current == RawFormats[idx]
InLoop == pc = "loop" /\ idx <= Len(RawFormats)

LoopRest ==
    UNCHANGED <<argv, cookiefs, disk, site, url, cookie_file, temp_cookie_file,
                cookiefile_opt, tmpfile, requests, info, result, stdout, exit_code>>

\* lines 88-89
LoopNoUrl ==
    /\ InLoop
    /\ NoUrl(Current)
    /\ idx' = idx + 1
    /\ UNCHANGED <<formats, seen, exc, pc>>
    /\ LoopRest

\* lines 92-94
LoopDuplicate ==
    /\ InLoop
    /\ ~NoUrl(Current) /\ Duplicate(Current, seen)
    /\ idx' = idx + 1
    /\ UNCHANGED <<formats, seen, exc, pc>>
    /\ LoopRest

\* the identifier is recorded only for a descriptor that is kept
LoopNoCodecMutNotSeen ==
    /\ InLoop
    /\ ~NoUrl(Current) /\ ~Duplicate(Current, seen)
    /\ FType(Current) = "drop"
    /\ idx' = idx + 1
    /\ UNCHANGED <<formats, seen, exc, pc>>
    /\ LoopRest

\* lines 95-108: neither codec
LoopNoCodec ==
    /\ InLoop
    /\ ~NoUrl(Current) /\ ~Duplicate(Current, seen)
    /\ FType(Current) = "drop"
    /\ seen' = seen \cup {Get(Current, "format_id", None)}
    /\ idx' = idx + 1
    /\ UNCHANGED <<formats, exc, pc>>
    /\ LoopRest

\* line 121 raises
LoopRaises ==
    /\ InLoop
    /\ ~NoUrl(Current) /\ ~Duplicate(Current, seen)
    /\ FType(Current) # "drop"
    /\ QualityRaises(Current)
    /\ seen' = seen \cup {Get(Current, "format_id", None)}
    /\ exc' = [type |-> "Exception", msg |-> "cannot convert float NaN to integer"]
    /\ pc' = "except"
    /\ UNCHANGED <<formats, idx>>
    /\ LoopRest

\* lines 95-147
LoopAppend ==
    /\ InLoop
    /\ ~NoUrl(Current) /\ ~Duplicate(Current, seen)
    /\ FType(Current) # "drop"
    /\ ~QualityRaises(Current)
    /\ seen' = seen \cup {Get(Current, "format_id", None)}
    /\ formats' = Append(formats, BuildRecord(Current, Duration))
    /\ idx' = idx + 1
    /\ UNCHANGED <<exc, pc>>
    /\ LoopRest

\* lines 149-170
SortAndReturn ==
    /\ pc = "loop"
    /\ idx > Len(RawFormats)
    /\ formats' = SortFormats(formats)
    /\ result' = Success(info, formats')
    /\ pc' = "finally"
    /\ UNCHANGED <<argv, cookiefs, disk, site, url, cookie_file, temp_cookie_file,
                   cookiefile_opt, tmpfile, requests, info, seen, idx, exc,
                   stdout, exit_code>>

\* ------------------------------------------------------------ extract: the exits

ExceptRest ==
    UNCHANGED <<argv, cookiefs, disk, site, url, cookie_file, temp_cookie_file,
                cookiefile_opt, tmpfile, requests, info, formats, seen, idx, exc,
                stdout, exit_code>>

\* lines 171-172
HandleDownloadError ==
    /\ pc = "except"
    /\ exc.type = "DownloadError"
    /\ result' = Failure(exc.msg)
    /\ pc' = "finally"
    /\ ExceptRest

\* lines 173-174
HandleException ==
    /\ pc = "except"
    /\ exc.type # "DownloadError"
    /\ result' = Failure(exc.msg)
    /\ pc' = "finally"
    /\ ExceptRest

\* the cleanup looks at the configured option, not at temp_cookie_file
MustUnlinkMutConfigured == cookiefile_opt = TempName /\ tmpfile.exists

\* line 177
MustUnlink == temp_cookie_file # None /\ tmpfile.exists

FinallyRest ==
    /\ pc' = "returned"
    /\ UNCHANGED <<argv, cookiefs, disk, site, url, cookie_file, temp_cookie_file,
                   cookiefile_opt, requests, info, formats, seen, idx, exc,
                   result, stdout, exit_code>>

\* line 177: nothing to delete
FinallyNoTemp ==
    /\ pc = "finally"
    /\ ~MustUnlink
    /\ UNCHANGED tmpfile
    /\ FinallyRest

\* lines 177-179
FinallyUnlink ==
    /\ pc = "finally"
    /\ MustUnlink /\ disk.unlink_ok
    /\ tmpfile' = [tmpfile EXCEPT !.exists = FALSE]
    /\ FinallyRest

\* lines 179-181: os.unlink raises and the error is ignored
FinallyUnlinkFails ==
    /\ pc = "finally"
    /\ MustUnlink /\ ~disk.unlink_ok
    /\ UNCHANGED tmpfile
    /\ FinallyRest

\* ------------------------------------------------------------ __main__, after extract

\* line 191
PrintResult ==
    /\ pc = "returned"
    /\ stdout' = Append(stdout, result)
    /\ pc' = "printed"
    /\ UNCHANGED <<argv, cookiefs, disk, site, url, cookie_file, temp_cookie_file,
                   cookiefile_opt, tmpfile, requests, info, formats, seen, idx,
                   exc, result, exit_code>>

\* no sys.exit(1) after a failure
ExitMutAlwaysZero ==
    /\ pc = "printed"
    /\ exit_code' = 0
    /\ pc' = "exited"
    /\ UNCHANGED <<argv, cookiefs, disk, site, url, cookie_file, temp_cookie_file,
                   cookiefile_opt, tmpfile, requests, info, formats, seen, idx,
                   exc, result, stdout>>

\* lines 193-194, or the end of the script
Exit ==
    /\ pc = "printed"
    /\ exit_code' = IF ~result.success THEN 1 ELSE 0
    /\ pc' = "exited"
    /\ UNCHANGED <<argv, cookiefs, disk, site, url, cookie_file, temp_cookie_file,
                   cookiefile_opt, tmpfile, requests, info, formats, seen, idx,
                   exc, result, stdout>>

Next ==
    \/ MainNoUrl
    \/ MainCall
    \/ CookieSkip
    \/ CookieReadFails
    \/ CookiePassThrough
    \/ CookieJsonFails
    \/ CookieJsonNoMatch
    \/ CookieTempCreateFails
    \/ CookieTempWriteFails
    \/ CookieTempWritten
    \/ TempVanishes
    \/ ExtractInfoReturns
    \/ ExtractInfoRaises
    \/ LoopNoUrl
    \/ LoopDuplicate
    \/ LoopNoCodec
    \/ LoopRaises
    \/ LoopAppend
    \/ SortAndReturn
    \/ HandleDownloadError
    \/ HandleException
    \/ FinallyNoTemp
    \/ FinallyUnlink
    \/ FinallyUnlinkFails
    \/ PrintResult
    \/ Exit

Spec == Init /\ [][Next]_vars

\* ------------------------------------------------------------ extract as a function

\* lines 87-108: descriptor k of raw has a URL and is the first with its
\* identifier among those that have one
FirstUrlBearing(raw, k) ==
    /\ ~NoUrl(raw[k])
    /\ \A j \in 1..(k - 1) :
          NoUrl(raw[j]) \/ Get(raw[j], "format_id", None) # Get(raw[k], "format_id", None)

\* lines 87-108: descriptor k of raw reaches line 110
Kept(raw, k) == FirstUrlBearing(raw, k) /\ FType(raw[k]) # "drop"

\* lines 87-147: the records appended for the first n descriptors
RECURSIVE Appended(_, _, _)
Appended(raw, duration, n) ==
    IF n = 0 THEN <<>>
    ELSE Appended(raw, duration, n - 1)
         \o (IF Kept(raw, n) THEN <<BuildRecord(raw[n], duration)>> ELSE <<>>)

\* lines 78-174: what extract returns for an answer of the library
Outcome(resp) ==
    IF resp.kind # "info" THEN Failure(resp.msg)
    ELSE LET raw == Get(resp.info, "formats", <<>>)
             duration == Get(resp.info, "duration", 0)
         IN  IF \E k \in 1..Len(raw) : Kept(raw, k) /\ QualityRaises(raw[k])
             THEN Failure("cannot convert float NaN to integer")
             ELSE Success(resp.info, SortFormats(Appended(raw, duration, Len(raw))))

\* ------------------------------------------------------------ claims

\* extract has returned
Returned == pc \in {"returned", "printed", "exited"}

\* extract has returned a Success
Succeeded == Returned /\ result.success

\* C1: a temporary cookie file that extract created no longer exists when
\* extract returns, whether the extraction succeeded, raised a download error
\* or raised anything else, provided the delete succeeds; and the result is
\* the one the library's answer determines, also when the file had already
\* gone missing before the cleanup.
C1_TempFileReleased ==
    (Returned /\ tmpfile.created) =>
        /\ disk.unlink_ok => ~tmpfile.exists
        /\ result = Outcome(Response)

\* C1 witness: extract returned a failure raised in the normaliser, having
\* created a temp file that it never configured, and the file is gone.
C1_Witness ==
    /\ pc = "returned"
    /\ tmpfile.created /\ ~tmpfile.exists
    /\ cookiefile_opt = Absent
    /\ disk.unlink_ok
    /\ exc.type = "Exception"
    /\ Len(requests) = 1

\* C2: every invocation prints exactly one document, the exit status is 0
\* exactly when the document says success and 1 exactly when it says failure,
\* and when the extraction call raised the document is the failure carrying
\* the raised message.
C2_OneDocumentAndStatus ==
    /\ Len(stdout) <= 1
    /\ pc # "exited" => exit_code = NoneN
    /\ pc = "exited" =>
        /\ Len(stdout) = 1
        /\ exit_code \in {0, 1}
        /\ exit_code = 0 <=> stdout[1].success
        /\ exit_code = 1 <=> ~stdout[1].success
        /\ (Len(requests) = 1 /\ Response.kind # "info") =>
              stdout[1] = [success |-> FALSE, error |-> Response.msg]

\* C2 witness: the process has exited with status 1 after the extraction call
\* raised a download error.
C2_Witness ==
    /\ pc = "exited"
    /\ Len(requests) = 1
    /\ Response.kind = "DownloadError"
    /\ exit_code = 1

\* C3: without the URL argument the process prints the fixed failure
\* document, exits with status 1, and never enters extract: no cookie
\* handling, no temp file, no extraction call.
C3_UsageError ==
    Len(argv) < 2 =>
        /\ pc \in {"main", "exited"}
        /\ requests = <<>>
        /\ ~tmpfile.created
        /\ temp_cookie_file = None
        /\ pc = "exited" =>
              /\ stdout = <<[success |-> FALSE, error |-> "URL required"]>>
              /\ exit_code = 1

\* C3 witness: the process was started without a URL and has exited.
C3_Witness == Len(argv) < 2 /\ pc = "exited" /\ stdout # <<>>

\* the supplied cookie file could not be read or parsed, or the temp file
\* could not be written
CookieFailure ==
    /\ Len(argv) > 2
    /\ \/ ~cookiefs.exists
       \/ ~cookiefs.readable
       \/ cookiefs.kind = "badjson"
       \/ /\ cookiefs.kind = "array"
          /\ \/ \E k \in 1..Len(cookiefs.entries) :
                   \/ ~IsDict(cookiefs.entries[k])
                   \/ Get(cookiefs.entries[k], "domain", <<>>) = NoneDomain
                   \/ /\ IsYtCookie(cookiefs.entries[k])
                      /\ Get(cookiefs.entries[k], "expirationDate", 0) \in {NaN, NoneN}
             \/ /\ \E k \in 1..Len(cookiefs.entries) : IsYtCookie(cookiefs.entries[k])
                /\ ~(disk.create_ok /\ disk.write_ok)

\* C4: a failure while reading or parsing the cookie file, or while writing
\* the temp file, is swallowed: the extraction call is made, with no cookie
\* file configured, and extract returns what it returns for an invocation
\* without a cookie_file argument, which is the outcome of the library's
\* answer without cookies.
C4_CookieFailureSwallowed ==
    /\ (CookieFailure /\ pc \notin {"main", "cookies"}) => cookiefile_opt = Absent
    /\ (CookieFailure /\ pc \notin {"main", "cookies", "extract"}) =>
          /\ Len(requests) = 1
          /\ requests[1].cookiefile = Absent
    /\ ((CookieFailure \/ Len(argv) = 2) /\ Returned) => result = Outcome(site.anon)

\* C4 witness: the temp file could not be written, and extract has returned
\* the Success of the answer without cookies although the library would have
\* raised with cookies.
C4_Witness ==
    /\ CookieFailure
    /\ cookiefs.kind = "array" /\ ~disk.write_ok
    /\ pc = "returned"
    /\ result.success
    /\ site.auth.kind # "info"

\* the formats of the Success that extract returned
Out == result.data.formats

FormatId(f) == Get(f, "format_id", None)

\* the position in the raw list of the descriptor an output record comes
\* from: the first URL-bearing descriptor with the record's identifier
Origin(x) ==
    CHOOSE k \in 1..Len(RawFormats) :
        FirstUrlBearing(RawFormats, k) /\ FormatId(RawFormats[k]) = x.format_id

\* C5: in a Success no two records have the same format_id, and every record
\* is the one built from the first URL-bearing raw descriptor with its
\* format_id.
C5_UniqueFirstWins ==
    Succeeded =>
        /\ \A i, j \in 1..Len(Out) : i # j => Out[i].format_id # Out[j].format_id
        /\ \A i \in 1..Len(Out) :
              \E k \in 1..Len(RawFormats) :
                  /\ ~NoUrl(RawFormats[k])
                  /\ FormatId(RawFormats[k]) = Out[i].format_id
                  /\ \A j \in 1..(k - 1) :
                        NoUrl(RawFormats[j])
                        \/ FormatId(RawFormats[j]) # Out[i].format_id
                  /\ Out[i] = BuildRecord(RawFormats[k], Duration)

\* C5 witness: a Success for two URL-bearing descriptors that share a
\* format_id and differ in their container, of which the first was kept.
C5_Witness ==
    /\ Succeeded
    /\ Len(RawFormats) = 2
    /\ ~NoUrl(RawFormats[1]) /\ ~NoUrl(RawFormats[2])
    /\ FormatId(RawFormats[1]) = FormatId(RawFormats[2])
    /\ RawFormats[1].ext # RawFormats[2].ext
    /\ Len(Out) = 1
    /\ Out[1].ext = RawFormats[1].ext

\* the descriptor carries a codec under `key`: the field is present, not
\* null and not the sentinel
HasCodec(f, key) == key \in DOMAIN f /\ f[key] \notin {None, "none"}

\* the output records with the identifier of raw descriptor k
Survivors(k) == {i \in 1..Len(Out) : Out[i].format_id = FormatId(RawFormats[k])}

Combined(x) == x.type = "video" /\ x.acodec # None

\* an absent value counts as 0
Zero(n) == IF n = NoneN THEN 0 ELSE n

\* C7: the output is sorted: a combined record precedes every record that is
\* not combined; among records of equal combined-status the order is
\* descending height, then descending fps, then descending derived filesize,
\* absent values counting as 0; records equal on all four keep their
\* relative input order.
C7_Sorted ==
    Succeeded =>
        \A i, j \in 1..Len(Out) :
            i < j =>
                /\ Combined(Out[j]) => Combined(Out[i])
                /\ (Combined(Out[i]) <=> Combined(Out[j])) =>
                      /\ Zero(Out[i].height) >= Zero(Out[j].height)
                      /\ Zero(Out[i].height) = Zero(Out[j].height) =>
                            /\ Zero(Out[i].fps) >= Zero(Out[j].fps)
                            /\ Zero(Out[i].fps) = Zero(Out[j].fps) =>
                                  /\ Zero(Out[i].filesize) >= Zero(Out[j].filesize)
                                  /\ Zero(Out[i].filesize) = Zero(Out[j].filesize) =>
                                        Origin(Out[i]) < Origin(Out[j])

\* C7 witness: a Success of three records in which the last raw descriptor
\* was moved to the front and the other two, equal on all four keys, kept
\* their input order.
C7_Witness ==
    /\ Succeeded
    /\ Len(Out) = 3
    /\ Origin(Out[1]) = 3 /\ Origin(Out[2]) = 1 /\ Origin(Out[3]) = 2
    /\ Combined(Out[1]) /\ ~Combined(Out[2]) /\ ~Combined(Out[3])
    /\ Out[2].height = Out[3].height
    /\ Out[2].fps = Out[3].fps
    /\ Out[2].filesize = Out[3].filesize

\* C8 as stated: for every URL-bearing, non-duplicate raw descriptor, whose
\* codec fields may be absent, null or "none": with a video codec it yields a
\* record of type video; with an audio codec and no video codec a record of
\* type audio; with neither codec no record; and no record carries the
\* sentinel "none" as a codec.
C8_Original ==
    Succeeded =>
        /\ \A k \in 1..Len(RawFormats) :
              FirstUrlBearing(RawFormats, k) =>
                  LET f == RawFormats[k]
                  IN  /\ HasCodec(f, "vcodec") =>
                            \E n \in Survivors(k) : Out[n].type = "video"
                      /\ (~HasCodec(f, "vcodec") /\ HasCodec(f, "acodec")) =>
                            \E n \in Survivors(k) : Out[n].type = "audio"
                      /\ (~HasCodec(f, "vcodec") /\ ~HasCodec(f, "acodec")) =>
                            Survivors(k) = {}
        /\ \A n \in 1..Len(Out) : Out[n].vcodec # "none" /\ Out[n].acodec # "none"

\* the estimate from total bitrate and duration
Estimate(tbr, duration) == (tbr * 1000 * duration) \div 8

DomainMatches(c) ==
    /\ "domain" \in DOMAIN c
    /\ \E k \in 1..Len(c.domain) : c.domain[k] \in {"youtube.com", "google.com"}

\* the entry has a name and a value
Named(c) ==
    /\ "name" \in DOMAIN c /\ c.name \notin {None, EmptyStr}
    /\ "value" \in DOMAIN c /\ c.value \notin {None, EmptyStr}

Wanted(c) == DomainMatches(c) /\ Named(c)

\* C10: for a structured cookie file, if no entry's domain contains
\* "youtube.com" or "google.com", no cookie file is configured and no temp
\* file is created; otherwise the temp file handed to the extraction call
\* holds, in input order, one record for exactly the matching entries that
\* have a name and a value, each with a domain that starts with "." (the
\* entry's domain, a dot prepended when missing) and the flag TRUE; and when
\* every entry is well-formed and the temp file can be written, that file is
\* the one handed to the call.
C10_CookieAdapter ==
    (Len(argv) > 2 /\ cookiefs.exists /\ cookiefs.readable /\ cookiefs.kind = "array") =>
        LET entries == cookiefs.entries
            wanted == SelectSeq(entries, Wanted)
        IN  /\ (\A k \in 1..Len(entries) : ~DomainMatches(entries[k])) =>
                  /\ cookiefile_opt = Absent
                  /\ ~tmpfile.created
                  /\ \A r \in 1..Len(requests) : requests[r].cookiefile = Absent
            /\ \A r \in 1..Len(requests) :
                  (requests[r].cookiefile = TempName /\ requests[r].file.exists) =>
                      LET records == requests[r].file.records
                      IN  /\ Len(records) = Len(wanted)
                          /\ \A k \in 1..Len(records) :
                                /\ records[k].name = wanted[k].name
                                /\ records[k].value = wanted[k].value
                                /\ records[k].domain[1] = "."
                                /\ records[k].domain \in
                                      {wanted[k].domain, <<".">> \o wanted[k].domain}
                                /\ records[k].flag = "TRUE"
            /\ (/\ requests # <<>>
                /\ \E k \in 1..Len(entries) : DomainMatches(entries[k])
                /\ ~CookieFailure) =>
                  requests[1].cookiefile = TempName

\* C10 witness: the extraction call was handed a temp file with one record
\* for an export of an undotted youtube.com entry and an example.com entry.
C10_Witness ==
    /\ Len(requests) = 1
    /\ requests[1].cookiefile = TempName
    /\ requests[1].file.exists
    /\ cookiefs.kind = "array"
    /\ cookiefs.entries =
          <<[domain |-> <<"youtube.com">>, name |-> "SID", value |-> "v1"],
            [domain |-> <<"example.com">>, name |-> "x", value |-> "v4"]>>
    /\ Len(requests[1].file.records) = 1
    /\ requests[1].file.records[1].domain = <<".", "youtube.com">>
    /\ requests[1].file.records[1].flag = "TRUE"

====
